---- MODULE Spec2Model ----
(***************************************************************************)
(* Model of the denobio blog server: the content loader                    *)
(* (src/repositories/content.repo.ts), the page renderers (pages/*.tsx,    *)
(* layouts/*.tsx) and the HTTP routes (main.tsx).                          *)
(*                                                                         *)
(* A content file is a sequence of lines.  A line is a record [k, v]: a    *)
(* front-matter line "key: value" has k = the key, the other kinds are     *)
(* "fence" (a code fence marker), "delim" (%%split%%), "blank" (white     *)
(* space only) and "text" (a line of Markdown; v = "script" is a raw         *)
(* script element, which Markdown passes through as HTML).                 *)
(***************************************************************************)
EXTENDS Integers, Sequences, FiniteSets, TLC

\* ------------------------------------------------------------------ bounds
\* Directory entries enumerated by one run of loadContents.
MaxFiles == 3

\* Pieces of a path handed to asset.
MaxPathLen == 4

\* Elements of an HTML string handed to ReadPage.
MaxHtmlLen == 3

\* Static requests waiting for their file at one time.
MaxInflight == 2

\* ------------------------------------------------------------------ lines
\* The metadata fields of interface Content (all but content).
Fields == {"title", "slug", "short", "createdAt", "updatedAt", "tags"}

\* const DELIMITER = "%%split%%", as a line of the file.
DELIMITER == [k |-> "delim", v |-> "%%split%%"]

Fence == [k |-> "fence", v |-> "fence"]
Blank == [k |-> "blank", v |-> ""]
Para == [k |-> "text", v |-> "p"]
ScriptLine == [k |-> "text", v |-> "script"]
KeyLine(key, val) == [k |-> key, v |-> val]

IsKeyLine(l) == l.k \notin {"fence", "delim", "blank", "text"}

\* JavaScript's undefined, where the model needs it as a Map key: a value
\* different from every string a file or a request carries.
Undefined == "#undefined"

\* ------------------------------------------------------------------ dates
\* ISO-8601 timestamps the files use, in increasing order of their instant.
IsoDates == <<"2025-08-01T00:00:00Z", "2025-08-02T00:00:00Z",
              "2025-08-03T00:00:00Z">>

\* new Date(s).getTime() is NaN unless s is a timestamp (undefined included).
IsValidDate(s) == \E i \in DOMAIN IsoDates : IsoDates[i] = s

\* new Date(s).getTime() for a valid timestamp: its instant.
GetTime(s) == CHOOSE i \in DOMAIN IsoDates : IsoDates[i] = s

\* ------------------------------------------------------------------ items
\* A parsed item is a function from the keys it carries to their values; a
\* key that is absent and a key that holds undefined read the same in every
\* use the program makes of an item, and are both modelled as absent.
Has(item, key) == key \in DOMAIN item

Get(item, key) == IF Has(item, key) THEN item[key] ELSE Undefined

\* ------------------------------------------------------------------ parsing
\* String.prototype.split(DELIMITER): the parts between the delimiters.
RECURSIVE Split(_)
Split(lines) ==
  IF \A i \in DOMAIN lines : lines[i] # DELIMITER
    THEN <<lines>>
    ELSE LET d == CHOOSE i \in DOMAIN lines :
                    /\ lines[i] = DELIMITER
                    /\ \A j \in 1..(i - 1) : lines[j] # DELIMITER
         IN  <<SubSeq(lines, 1, d - 1)>> \o Split(SubSeq(lines, d + 1, Len(lines)))

\* String.prototype.trim(): leading and trailing white space removed.
RECURSIVE Trim(_)
Trim(lines) ==
  IF lines = <<>> THEN <<>>
  ELSE IF Head(lines) = Blank THEN Trim(Tail(lines))
  ELSE IF lines[Len(lines)] = Blank THEN Trim(SubSeq(lines, 1, Len(lines) - 1))
  ELSE lines

\* processMeta: lines.slice(1, lines.length - 1).
processMeta_OnlyFences(rawMeta) == SelectSeq(rawMeta, LAMBDA l : l # Fence)

processMeta(rawMeta) == SubSeq(rawMeta, 2, Len(rawMeta) - 1)

\* parse of @std/yaml on the lines of a block mapping.  Blank lines are
\* skipped.  A fence (a backquote cannot start a token) is a syntax error,
\* and so are a plain text line next to a mapping entry and a key that
\* occurs twice.  Text lines alone are a scalar, an empty document is null:
\* spreading either into an object literal gives no Content field.
YamlParse(lines) ==
  LET idx  == {i \in DOMAIN lines : lines[i] # Blank}
      keyI == {i \in idx : IsKeyLine(lines[i])}
      keys == {lines[i].k : i \in keyI}
  IN  IF \E i \in idx : lines[i].k \in {"fence", "delim"}
        THEN [ok |-> FALSE, val |-> <<>>]
      ELSE IF keyI # {} /\ keyI # idx
        THEN [ok |-> FALSE, val |-> <<>>]
      ELSE IF Cardinality(keys) # Cardinality(keyI)
        THEN [ok |-> FALSE, val |-> <<>>]
      ELSE [ok |-> TRUE,
            val |-> [key \in keys |->
                       lines[CHOOSE i \in keyI : lines[i].k = key].v]]

\* parseContent: const [meta, body] = content.split(DELIMITER).map(trim);
\* return {...parse(processMeta(meta)), content: body}.  Parts after the
\* second are dropped by the destructuring, and body is undefined when the
\* split gives one part.  ok = FALSE when parse throws.
parseContent_MetaWins(content) ==
  LET split   == Split(content)
      parts   == [i \in DOMAIN split |-> Trim(split[i])]
      parsed  == YamlParse(processMeta(parts[1]))
      keys    == DOMAIN parsed.val
                   \cup (IF Len(parts) >= 2 THEN {"content"} ELSE {})
  IN  [ok   |-> parsed.ok,
       item |-> IF parsed.ok
                  THEN [key \in keys |->
                          IF key \in DOMAIN parsed.val THEN parsed.val[key]
                          ELSE parts[2]]
                  ELSE <<>>]

parseContent(content) ==
  LET split   == Split(content)
      parts   == [i \in DOMAIN split |-> Trim(split[i])]
      meta    == parts[1]
      hasBody == Len(parts) >= 2
      parsed  == YamlParse(processMeta(meta))
      keys    == (DOMAIN parsed.val \ {"content"})
                   \cup (IF hasBody THEN {"content"} ELSE {})
  IN  [ok   |-> parsed.ok,
       item |-> IF parsed.ok
                  THEN [key \in keys |->
                          IF key = "content" THEN parts[2] ELSE parsed.val[key]]
                  ELSE <<>>]

\* ------------------------------------------------------------------ sorting
\* The comparator of parsedContents.sort: aDate.getTime() - bDate.getTime();
\* a NaN result counts as 0.
Compare(a, b) ==
  IF IsValidDate(Get(a, "createdAt")) /\ IsValidDate(Get(b, "createdAt"))
    THEN GetTime(a["createdAt"]) - GetTime(b["createdAt"])
    ELSE 0

\* Insertion that keeps equal items in their order of arrival.
RECURSIVE InsertSorted(_, _)
InsertSorted(sorted, x) ==
  IF sorted = <<>> THEN <<x>>
  ELSE IF Compare(sorted[Len(sorted)], x) <= 0 THEN Append(sorted, x)
  ELSE Append(InsertSorted(SubSeq(sorted, 1, Len(sorted) - 1), x),
              sorted[Len(sorted)])

\* Array.prototype.sort is stable (ES2019).
RECURSIVE StableSort(_)
StableSort(items) ==
  IF items = <<>> THEN <<>>
  ELSE InsertSorted(StableSort(SubSeq(items, 1, Len(items) - 1)),
                    items[Len(items)])

\* With a NaN among the instants the comparator may call a = x and x = b for
\* a < b: it is then not a consistent comparator and the order sort leaves
\* is implementation-defined.
ConsistentComparator(items) ==
  \/ \A i \in DOMAIN items : IsValidDate(Get(items[i], "createdAt"))
  \/ \A i, j \in DOMAIN items : Compare(items[i], items[j]) = 0

Reorderings(items) ==
  {[i \in DOMAIN items |-> items[p[i]]] : p \in Permutations(DOMAIN items)}

\* The results parsedContents.sort(...) can give.
SortOutcomes(items) ==
  IF ConsistentComparator(items) THEN {StableSort(items)}
  ELSE Reorderings(items)

\* ------------------------------------------------------------------ the Map
\* A Map<string, Content> is the sequence of its entries in iteration order.
\* Map.prototype.set on a key the map holds replaces the value and leaves the
\* entry where it is; a new key is appended.
MapSet_AlwaysAppend(m, key, value) == Append(m, [key |-> key, value |-> value])

MapSet_KeepFirst(m, key, value) ==
  IF \E i \in DOMAIN m : m[i].key = key THEN m
  ELSE Append(m, [key |-> key, value |-> value])

MapSet(m, key, value) ==
  IF \E i \in DOMAIN m : m[i].key = key
    THEN [i \in DOMAIN m |->
            IF m[i].key = key THEN [key |-> key, value |-> value] ELSE m[i]]
    ELSE Append(m, [key |-> key, value |-> value])

MapHas(m, key) == \E i \in DOMAIN m : m[i].key = key

MapGet(m, key) == m[CHOOSE i \in DOMAIN m : m[i].key = key].value

MapKeys(m) == {m[i].key : i \in DOMAIN m}

\* Array.from(m.values())
MapValues(m) == [i \in DOMAIN m |-> m[i].value]

\* for (const content of parsedContents) contentMap.set(content.slug, content)
RECURSIVE BuildMap(_)
BuildMap(items) ==
  IF items = <<>> THEN <<>>
  ELSE MapSet(BuildMap(SubSeq(items, 1, Len(items) - 1)),
              Get(items[Len(items)], "slug"), items[Len(items)])

\* ------------------------------------------------------------------ files
Titles == {"t1", "t2"}
Slugs == {"a", "b"}
Dates == {IsoDates[1], IsoDates[2]}

\* The article t2 embeds a script element in its Markdown.
BodyOf(title) == IF title = "t1" THEN <<Para>> ELSE <<Para, Blank, ScriptLine>>

Meta(title, slug, date) ==
  << KeyLine("title", title), KeyLine("slug", slug),
     KeyLine("short", IF title = "t1" THEN "summary 1" ELSE "summary 2"),
     KeyLine("createdAt", date), KeyLine("updatedAt", date),
     KeyLine("tags", "elixir otp") >>

\* A file in the format of src/contents/*.md.
ContentFile(title, slug, date) ==
  <<Fence>> \o Meta(title, slug, date) \o <<Fence, Blank, DELIMITER, Blank>>
    \o BodyOf(title)

\* The files in the format: every slug at the first date, the first slug at
\* every date, and a second article, of another title, that takes the first
\* slug at the first date.
GoodFiles ==
  {ContentFile("t1", s, IsoDates[1]) : s \in Slugs}
    \cup {ContentFile("t1", "a", d) : d \in Dates}
    \cup {ContentFile(t, "a", IsoDates[1]) : t \in Titles}

Without(lines, key) == SelectSeq(lines, LAMBDA l : l.k # key)

BaseMeta == Meta("t1", "a", IsoDates[1])

\* Files that are not in that format.
BadFiles ==
  {  \* no delimiter, no body
     <<Fence>> \o BaseMeta \o <<Fence>>,
     \* no delimiter, the body right after the front matter
     <<Fence>> \o BaseMeta \o <<Fence, Blank, Para>>,
     \* a second delimiter
     ContentFile("t1", "a", IsoDates[1]) \o <<Blank, DELIMITER, Blank, Para>>,
     \* an empty body
     <<Fence>> \o BaseMeta \o <<Fence, Blank, DELIMITER, Blank>>,
     \* an empty metadata block
     <<DELIMITER, Blank, Para>>,
     \* front matter without fence markers
     BaseMeta \o <<Blank, DELIMITER, Blank, Para>> }
  \cup { <<Fence>> \o Without(BaseMeta, f) \o <<Fence, Blank, DELIMITER, Blank, Para>> :
           f \in Fields }

\* The format of section 6: one delimiter; before it a fenced block holding
\* every metadata key once, createdAt a timestamp; after it a body.
WellFormed(file) ==
  LET parts == Split(file)
      meta  == Trim(parts[1])
      inner == SubSeq(meta, 2, Len(meta) - 1)
  IN  /\ Len(parts) = 2
      /\ Len(meta) >= 2 /\ meta[1] = Fence /\ meta[Len(meta)] = Fence
      /\ \A i \in DOMAIN inner : IsKeyLine(inner[i])
      /\ \A f \in Fields : Cardinality({i \in DOMAIN inner : inner[i].k = f}) = 1
      /\ Len(inner) = Cardinality(Fields)
      /\ \E i \in DOMAIN inner : inner[i].k = "createdAt" /\ IsValidDate(inner[i].v)
      /\ Trim(parts[2]) # <<>>

\* ------------------------------------------------------------------ state
VARIABLES
  pc,              \* "reading", "failed", "loaded", "serving"
  nEntries,        \* directory entries loadContents has enumerated
  rawContents,     \* loadContents: the texts read, in enumeration order
  parsedContents,  \* loadContents: the items parsed (sorted, once sorted)
  contents,        \* content.repo.ts: let contents
  contentsMap,     \* pages/index.tsx: const contentsMap
  request,         \* the request last handled
  response,        \* and its response
  hkPc,            \* loadHashkey: "pending", "failed", "done"
  hashKeyFile,     \* loadHashkey: what it found at hashKeyPath
  hashKey,         \* utils/cache.ts: let hashKey
  assetCall,       \* the last call of asset by a caller of the module alone
  unitCall,        \* the last call of parseContent or ReadPage taken alone
  inflight         \* the static requests waiting for their file

vars == <<pc, nEntries, rawContents, parsedContents, contents, contentsMap,
          request, response, hkPc, hashKeyFile, hashKey, assetCall,
          unitCall, inflight>>

\* The functions called alone, and the requests in flight.
unitVars == <<unitCall, inflight>>

\* The state of utils/cache.ts and of its caller.
cacheVars == <<hkPc, hashKeyFile, hashKey, assetCall>>

NoRequest == [route |-> "none", slug |-> ""]
NoResponse == [status |-> 0, body |-> <<>>]

\* A file as fs.exists and Deno.readTextFile see it; the text is a sequence
\* of pieces, of white space or of other characters.
NoFile == [exists |-> FALSE, text |-> <<>>]

NoCall == [called |-> FALSE, path |-> <<>>, result |-> <<>>]

NoUnitCall == [fn |-> "none"]

Init ==
  /\ pc = "reading"
  /\ nEntries = 0
  /\ rawContents = <<>>
  /\ parsedContents = <<>>
  /\ contents = <<>>
  /\ contentsMap = <<>>
  /\ request = NoRequest
  /\ response = NoResponse
  /\ hkPc = "pending"
  /\ hashKeyFile = NoFile
  /\ hashKey = Undefined
  /\ assetCall = NoCall
  /\ unitCall = NoUnitCall
  /\ inflight = <<>>

\* ------------------------------------------------------------------ cache
\* utils/cache.ts.  A path, like every string the asset helper handles, is
\* the sequence of its pieces: "." is a piece of its own, and so is every
\* occurrence of the text of a hash key; "/style.css" is <<"/style", ".",
\* "css">>.  The hash key itself is one piece.

\* Array.prototype.reverse
Reverse(seq) == [i \in DOMAIN seq |-> seq[Len(seq) + 1 - i]]

\* path.split("."): the segments between the dots.
RECURSIVE SplitDot(_)
SplitDot(path) ==
  IF \A i \in DOMAIN path : path[i] # "."
    THEN <<path>>
    ELSE LET d == CHOOSE i \in DOMAIN path :
                    /\ path[i] = "."
                    /\ \A j \in 1..(i - 1) : path[j] # "."
         IN  <<SubSeq(path, 1, d - 1)>> \o SplitDot(SubSeq(path, d + 1, Len(path)))

\* segments.join(".")
RECURSIVE JoinDot(_)
JoinDot(segments) ==
  IF segments = <<>> THEN <<>>
  ELSE IF Len(segments) = 1 THEN segments[1]
  ELSE segments[1] \o <<".">> \o JoinDot(Tail(segments))

\* !value is false for a string that is not empty.
Truthy_DefinedOnly(value) == value # Undefined

Truthy(value) == value # Undefined /\ value # ""

\* asset: the hash key becomes the second element of the reversed segments.
asset_KeyFirst(path) ==
  IF ~Truthy(hashKey) THEN path ELSE <<hashKey, ".">> \o path

asset_KeyLast(path) ==
  IF ~Truthy(hashKey) THEN path ELSE path \o <<".", hashKey>>

asset_NoGuard(path) ==
  LET reversed == Reverse(SplitDot(path))
  IN  JoinDot(Reverse(<<Head(reversed), <<hashKey>>>> \o Tail(reversed)))

asset(path) ==
  IF ~Truthy(hashKey) THEN path
  ELSE LET reversed == Reverse(SplitDot(path))
           ext      == Head(reversed)
           rest     == Tail(reversed)
       IN  JoinDot(Reverse(<<ext, <<hashKey>>>> \o rest))

getHashKey == hashKey

\* hk.trim(), as a string: white space at both ends removed.
IsSpace(piece) == piece \in {" ", "\t", "\n"}

RECURSIVE TrimText(_)
TrimText(text) ==
  IF text = <<>> THEN <<>>
  ELSE IF IsSpace(Head(text)) THEN TrimText(Tail(text))
  ELSE IF IsSpace(text[Len(text)]) THEN TrimText(SubSeq(text, 1, Len(text) - 1))
  ELSE text

\* The string of a text of at most one piece.
Str(text) == IF text = <<>> THEN "" ELSE text[1]

\* The key files the build step leaves: none, or the hex digest of the style
\* sheet cut to six characters, on a line.
HashKeyFiles ==
  { NoFile,
    [exists |-> TRUE, text |-> <<"abc123", "\n">>] }

\* The value loadHashkey leaves in hashKey: nothing is assigned when the file
\* does not exist.
loadHashkey_ReadsAnyway(file) == Str(TrimText(file.text))

loadHashkey(file) ==
  IF ~file.exists THEN hashKey ELSE Str(TrimText(file.text))

\* await loadHashkey(), the top-level await of utils/cache.ts: it starts
\* before loadContents does and ends before or after it.
LoadHashkey_EveryTime ==
  /\ hkPc \in {"pending", "done"}
  /\ \E file \in HashKeyFiles :
       /\ hashKeyFile' = file
       /\ hashKey' = loadHashkey(file)
  /\ hkPc' = "done"
  /\ UNCHANGED <<pc, nEntries, rawContents, parsedContents, contents, contentsMap,
                 request, response, assetCall, unitVars>>

LoadHashkeyOf(files) ==
  /\ hkPc = "pending"
  /\ \E file \in files :
       /\ hashKeyFile' = file
       /\ hashKey' = loadHashkey(file)
  /\ hkPc' = "done"
  /\ UNCHANGED <<pc, nEntries, rawContents, parsedContents, contents, contentsMap,
                 request, response, assetCall, unitVars>>

LoadHashkey == LoadHashkeyOf(HashKeyFiles)

\* Key files that hold no key: an empty file, a file of white space.
BlankKeyFiles ==
  { [exists |-> TRUE, text |-> <<>>],
    [exists |-> TRUE, text |-> <<" ", "\n">>] }

LoadBlankHashkey == LoadHashkeyOf(BlankKeyFiles)

\* Deno.readTextFile rejects for a file that exists (a directory, a file
\* that may not be read): loadHashkey rejects and the top-level await throws.
HashkeyReadError ==
  /\ hkPc = "pending"
  /\ \E file \in HashKeyFiles :
       /\ file.exists
       /\ hashKeyFile' = file
  /\ hkPc' = "failed"
  /\ UNCHANGED <<pc, nEntries, rawContents, parsedContents, contents, contentsMap,
                 request, response, hashKey, assetCall, unitVars>>

\* The paths a caller hands to asset: every string of up to MaxPathLen of
\* these pieces, so with no dot, with one and with several, with a dot at
\* the start or at the end, and the empty string.
PathPieces == {"/style", ".", "css"}

AssetPaths == UNION {[1..n -> PathPieces] : n \in 0..MaxPathLen}

\* A module that imports utils/cache.ts calls asset, once the top-level
\* await of utils/cache.ts has completed.
CallAsset ==
  /\ hkPc = "done"
  /\ \E path \in AssetPaths :
       assetCall' = [called |-> TRUE, path |-> path, result |-> asset(path)]
  /\ UNCHANGED <<pc, nEntries, rawContents, parsedContents, contents, contentsMap,
                 request, response, hkPc, hashKeyFile, hashKey, unitVars>>

\* utils/cache.ts alone, with a caller of asset.
CacheNext == LoadHashkey \/ HashkeyReadError \/ CallAsset

CacheSpec == Init /\ [][CacheNext]_vars

\* ------------------------------------------------------------------ loader
\* for await (const entry of contentsIter): an entry that is a ".md" file is
\* read and pushed.  The directories considered hold any number of files in
\* the format and at most one that is not.
ReadEntryOf(files) ==
  /\ pc = "reading"
  /\ nEntries < MaxFiles
  /\ \E f \in files :
       /\ WellFormed(f) \/ \A i \in DOMAIN rawContents : WellFormed(rawContents[i])
       /\ rawContents' = Append(rawContents, f)
  /\ nEntries' = nEntries + 1
  /\ UNCHANGED <<pc, parsedContents, contents, contentsMap, request, response,
                 cacheVars, unitVars>>

ReadEntry == ReadEntryOf(GoodFiles \cup BadFiles)

\* ... and any other entry (a directory, a file of another extension) is
\* passed over.
SkipEntry ==
  /\ pc = "reading"
  /\ nEntries < MaxFiles
  /\ nEntries' = nEntries + 1
  /\ UNCHANGED <<pc, rawContents, parsedContents, contents, contentsMap,
                 request, response, cacheVars, unitVars>>

\* Deno.readDir or Deno.readTextFile rejects: loadContents rejects and the
\* module's top-level await throws.
ReadError ==
  /\ pc = "reading"
  /\ pc' = "failed"
  /\ UNCHANGED <<nEntries, rawContents, parsedContents, contents, contentsMap,
                 request, response, cacheVars, unitVars>>

\* The first text parseContent throws on, 0 if none.
FirstThrow(raws) ==
  LET ok == [i \in DOMAIN raws |-> parseContent(raws[i]).ok]
  IN  IF \A i \in DOMAIN raws : ok[i] THEN 0
      ELSE CHOOSE i \in DOMAIN raws : ~ok[i] /\ \A j \in 1..(i - 1) : ok[j]

\* What a throw of parseContent leaves in `contents`: nothing is assigned.
ContentsOnThrow_Partial(items) == BuildMap(items)

ContentsOnThrow(items) == contents

\* The rest of loadContents, from the end of the directory on: it has no
\* await, so it runs in one step.  Parse every text, sort, build the map and
\* assign it to `contents`.
FinishLoad ==
  /\ pc = "reading"
  /\ LET t == FirstThrow(rawContents)
         items == [i \in DOMAIN rawContents |-> parseContent(rawContents[i]).item]
     IN  IF t # 0
           THEN LET before == SubSeq(items, 1, t - 1)
                IN  /\ pc' = "failed"
                    /\ parsedContents' = before
                    /\ contents' = ContentsOnThrow(before)
           ELSE \E sorted \in SortOutcomes(items) :
                  /\ pc' = "loaded"
                  /\ parsedContents' = sorted
                  /\ contents' = BuildMap(sorted)
  /\ UNCHANGED <<nEntries, rawContents, contentsMap, request, response, cacheVars, unitVars>>

\* pages/index.tsx is evaluated once content.repo.ts has finished (its
\* top-level await included): const contentsMap = getContents(); then
\* main.tsx, once every module it imports has finished, utils/cache.ts
\* included, registers the routes and Deno.serve starts.
StartServer_BeforeHashkey ==
  /\ pc = "loaded"
  /\ contentsMap' = contents
  /\ pc' = "serving"
  /\ UNCHANGED <<nEntries, rawContents, parsedContents, contents, request, response,
                 cacheVars, unitVars>>

StartServer ==
  /\ pc = "loaded"
  /\ hkPc = "done"
  /\ contentsMap' = contents
  /\ pc' = "serving"
  /\ UNCHANGED <<nEntries, rawContents, parsedContents, contents, request, response,
                 cacheVars, unitVars>>

\* ------------------------------------------------------------------ pages
\* A rendered document is the sequence of its elements in document order; an
\* element is [el, class, href, text], href and text being the pieces whose
\* concatenation is the string.  A renderer that throws gives Thrown.
El(el, class, href, text) == [el |-> el, class |-> class, href |-> href, text |-> text]

Thrown == <<El("#thrown", "", <<>>, <<>>)>>

\* {value} in JSX: undefined renders nothing.
Text(item, key) == IF Has(item, key) THEN <<item[key]>> ELSE <<>>

\* `/read/${content.slug}`
ReadHref(item) == <<"/read/", IF Has(item, "slug") THEN item["slug"] ELSE "undefined">>

\* The elements of a YAML sequence of tags.
TagNames(tags) == IF tags = "elixir otp" THEN <<"elixir", "otp">> ELSE <<tags>>

\* Intl.DateTimeFormat(undefined, {dateStyle: "full", timeStyle: "short"})
\* .format(date), for a valid date.
FormatDate(s) ==
  << "Friday, August 1, 2025 at 12:00 AM", "Saturday, August 2, 2025 at 12:00 AM",
     "Sunday, August 3, 2025 at 12:00 AM" >>[GetTime(s)]

\* join(" ") of the tags, each prefixed with "#".
RECURSIVE JoinTags(_)
JoinTags(names) ==
  IF names = <<>> THEN <<>>
  ELSE IF Len(names) = 1 THEN <<"#", names[1]>>
  ELSE <<"#", names[1], " ">> \o JoinTags(Tail(names))

DefaultDescription == "billy's directory"

\* props.description ?? "billy's directory"
Description_Dropped(description) == DefaultDescription

Description(description) ==
  IF description = Undefined THEN DefaultDescription ELSE description

\* RootLayout: the head (meta description, icon and style sheet at the
\* paths asset gives, the highlight.js scripts and the inline script that
\* runs it), then the body.
RootLayout(description, children) ==
  << El("meta", "description", <<>>, <<Description(description)>>),
     El("link", "icon", asset(<<"/favicon", ".", "svg">>), <<>>),
     El("link", "stylesheet", asset(<<"/style", ".", "css">>), <<>>),
     El("link", "stylesheet", <<"https://cdn.jsdelivr.net/", "bright.min.css">>, <<>>),
     El("script", "", <<"https://cdn.jsdelivr.net/", "highlight.min.js">>, <<>>),
     El("script", "", <<"https://cdn.jsdelivr.net/", "elixir.min.js">>, <<>>),
     El("script", "", <<"https://cdn.jsdelivr.net/", "javascript.min.js">>, <<>>),
     El("script", "", <<>>, <<"hljs.highlightAll();">>),
     El("body", "font-mono px-2 md:px-0", <<>>, <<>>) >>
  \o children

\* AppLayout: navigation bar, divider, the page, divider, footer.
AppLayout(description, children) ==
  RootLayout(description,
    << El("a", "text-xl font-bold", <<"/">>, <<"~/bllyanos">>),
       El("div", "divider my-0", <<>>, <<>>),
       El("div", "content p-2 container max-w-screen-md mx-auto", <<>>, <<>>) >>
    \o children \o
    << El("div", "divider mt-6 md:mt-20", <<>>, <<>>),
       El("footer", "", <<>>, <<"2025 bllyanos">>) >>)

IndexDescription == "hi, and welcome to billy's directory."

\* One entry of the listing; the divider follows every entry but the last.
IndexEntry_AlwaysDivider(content, index, length) ==
  << El("div", "py-4 bg-base text-base-content", <<>>, <<>>),
     El("small", "text-base-content/60", <<>>, <<FormatDate(content["createdAt"])>>),
     El("small", "text-base-content/90 text-left sm:text-right", <<>>,
        JoinTags(TagNames(content["tags"]))),
     El("a", "title", ReadHref(content), Text(content, "title")),
     El("div", "line-clamp-5 md:line-clamp-3 text-base-content/90", <<>>,
        Text(content, "short")),
     El("a", "more", ReadHref(content), <<"read more">>),
     El("div", "divider my-0", <<>>, <<>>) >>

IndexEntry(content, index, length) ==
  << El("div", "py-4 bg-base text-base-content", <<>>, <<>>),
     El("small", "text-base-content/60", <<>>, <<FormatDate(content["createdAt"])>>),
     El("small", "text-base-content/90 text-left sm:text-right", <<>>,
        JoinTags(TagNames(content["tags"]))),
     El("a", "title", ReadHref(content), Text(content, "title")),
     El("div", "line-clamp-5 md:line-clamp-3 text-base-content/90", <<>>,
        Text(content, "short")),
     El("a", "more", ReadHref(content), <<"read more">>) >>
  \o (IF index < length - 1 THEN <<El("div", "divider my-0", <<>>, <<>>)>> ELSE <<>>)

RECURSIVE Concat(_)
Concat(seqs) == IF seqs = <<>> THEN <<>> ELSE Head(seqs) \o Concat(Tail(seqs))

\* Array.from(contentsMap.values()).reverse()
ListingOrder(map) == Reverse(MapValues(map))

\* IndexPage.  format throws a RangeError on an invalid date, and
\* content.tags.map a TypeError when tags is undefined.
IndexPage(map) ==
  LET list == ListingOrder(map)
  IN  IF \E i \in DOMAIN list :
           \/ ~IsValidDate(Get(list[i], "createdAt"))
           \/ ~Has(list[i], "tags")
        THEN Thrown
        ELSE AppLayout(IndexDescription,
               <<El("p", "py-8 bg-base text-base-content", <<>>, <<IndexDescription>>)>>
               \o Concat([i \in DOMAIN list |-> IndexEntry(list[i], i - 1, Len(list))]))

\* marked.parse: a raw script element of the Markdown goes through as it is,
\* every other line becomes a block of text.
Marked(lines) ==
  LET kept == SelectSeq(lines, LAMBDA l : l # Blank)
  IN  [i \in DOMAIN kept |->
         IF kept[i] = ScriptLine THEN El("script", "", <<>>, <<"script">>)
         ELSE El("p", "", <<>>, <<kept[i].v>>)]

\* purify.sanitize (DOMPurify defaults): script elements are removed.
Sanitize_Nothing(html) == html

Sanitize(html) == SelectSeq(html, LAMBDA e : e.el # "script")

\* ReadPage: the tags, then the article holding sanitizedContent as it is
\* (dangerouslySetInnerHTML).  content.tags.map throws when tags is undefined.
ReadPage_Escaped(content, sanitizedContent) ==
  IF ~Has(content, "tags") THEN Thrown
  ELSE AppLayout(Get(content, "short"),
         [i \in DOMAIN TagNames(content["tags"]) |->
            El("small", "", <<>>, <<"#", TagNames(content["tags"])[i]>>)]
         \o <<El("article", "prose", <<>>, <<>>)>>
         \o [i \in DOMAIN sanitizedContent |->
               El("#text", "", <<>>, <<"<", sanitizedContent[i].el, ">">>)]
         \o <<El("/article", "", <<>>, <<>>)>>)

ReadPage(content, sanitizedContent) ==
  IF ~Has(content, "tags") THEN Thrown
  ELSE AppLayout(Get(content, "short"),
         [i \in DOMAIN TagNames(content["tags"]) |->
            El("small", "", <<>>, <<"#", TagNames(content["tags"])[i]>>)]
         \o <<El("article", "prose", <<>>, <<>>)>>
         \o sanitizedContent
         \o <<El("/article", "", <<>>, <<>>)>>)

\* ------------------------------------------------------------------ routes
Html(doc) == [status |-> 200, body |-> doc]
NotFound == [status |-> 404, body |-> <<El("#text", "", <<>>, <<"404 Not Found">>)>>]
\* Hono's default error handler, for a handler that throws.
InternalError ==
  [status |-> 500, body |-> <<El("#text", "", <<>>, <<"Internal Server Error">>)>>]

\* The slugs requests ask for: those of the files and one no file has.
RequestSlugs == Slugs \cup {"zz"}

\* app.get("/", ...): c.html(<IndexPage />)
IndexResponse ==
  LET page == IndexPage(contentsMap)
  IN  IF page = Thrown THEN InternalError ELSE Html(page)

GetIndex_ReverseInPlace ==
  /\ pc = "serving"
  /\ request' = [route |-> "/", slug |-> ""]
  /\ response' = IndexResponse
  /\ contents' = Reverse(contents)
  /\ contentsMap' = Reverse(contentsMap)
  /\ UNCHANGED <<pc, nEntries, rawContents, parsedContents, cacheVars, unitVars>>

GetIndex ==
  /\ pc = "serving"
  /\ request' = [route |-> "/", slug |-> ""]
  /\ response' = IndexResponse
  /\ UNCHANGED <<pc, nEntries, rawContents, parsedContents, contents, contentsMap,
                 cacheVars, unitVars>>

\* app.get("/read/:slug", ...).  marked.parse throws on undefined.
ReadResponse(slug) ==
  IF ~MapHas(contents, slug) THEN NotFound
  ELSE LET content == MapGet(contents, slug)
       IN  IF ~Has(content, "content") THEN InternalError
           ELSE LET page == ReadPage(content, Sanitize(Marked(content["content"])))
                IN  IF page = Thrown THEN InternalError ELSE Html(page)

GetRead ==
  /\ pc = "serving"
  /\ \E slug \in RequestSlugs :
       /\ request' = [route |-> "/read/:slug", slug |-> slug]
       /\ response' = ReadResponse(slug)
  /\ UNCHANGED <<pc, nEntries, rawContents, parsedContents, contents, contentsMap,
                 cacheVars, unitVars>>

\* The files of ./public: the style sheet, its copy and the copy of the icon
\* under the hash key, and a file in a directory whose name happens to hold
\* the text of the key.
PublicFiles ==
  { <<"/style", ".", "css">>,
    <<"/style", ".", "abc123", ".", "css">>,
    <<"/favicon", ".", "abc123", ".", "svg">>,
    <<"/", "abc123", "/logo", ".", "svg">> }

\* The paths static requests ask for: files that are there and one that is
\* not.
StaticPaths ==
  { <<"/style", ".", "css">>,
    <<"/style", ".", "abc123", ".", "css">>,
    <<"/", "abc123", "/logo", ".", "svg">>,
    <<"/missing", ".", "css">> }

\* filePath.includes(hashKey): every string includes the empty string.
Includes_HashSegment(filePath, key) ==
  LET segments == SplitDot(filePath)
  IN  Len(segments) >= 3 /\ segments[Len(segments) - 1] = <<key>>

Includes(filePath, key) ==
  key = "" \/ \E i \in DOMAIN filePath : filePath[i] = key

ImmutableCacheControl == "max-age=31536000; immutable"

\* onFound: the headers it sets on c.res.
onFound(filePath) ==
  IF ~Truthy(getHashKey) THEN {}
  ELSE IF Includes(filePath, getHashKey)
    THEN {<<"Cache-Control", ImmutableCacheControl>>}
    ELSE {}

\* app.use("/*", serveStatic({root: "./public", onFound})): a file that is
\* found under the root is the body, with the headers onFound has set; for
\* any other path the request falls through to Hono's not-found handler.
StaticResponse(path) ==
  IF path \in PublicFiles
    THEN [status |-> 200, body |-> <<El("#file", "", path, <<>>)>>,
          headers |-> onFound(<<".", "/public">> \o path)]
    ELSE NotFound

GetStatic ==
  /\ pc = "serving"
  /\ \E path \in StaticPaths :
       /\ request' = [route |-> "/*", slug |-> "", path |-> path]
       /\ response' = StaticResponse(path)
  /\ UNCHANGED <<pc, nEntries, rawContents, parsedContents, contents, contentsMap,
                 cacheVars, unitVars>>

Next ==
  \/ LoadHashkey \/ HashkeyReadError
  \/ ReadEntry \/ SkipEntry \/ ReadError \/ FinishLoad \/ StartServer
  \/ GetIndex \/ GetRead \/ GetStatic

Spec == Init /\ [][Next]_vars

\* ------------------------------------------------------------------ units
\* parseContent, processMeta and ReadPage taken alone, on more inputs than a
\* directory of the bound gives them.

\* A "content" key in the front matter, its value a text as a body is.
FrontMatterContent == <<[k |-> "text", v |-> "front matter content"]>>

ContentKeyLine == KeyLine("content", FrontMatterContent)

UnitMetas ==
  LET metas == {Meta(t, s, d) : t \in Titles, s \in Slugs, d \in Dates}
  IN  metas \cup {<<ContentKeyLine>> \o m : m \in metas}

\* Fenced files, white space or none before and after the body; the same
\* front matters without their fence markers; the malformed files.
UnitFiles ==
  { <<Fence>> \o m \o <<Fence, Blank, DELIMITER>> \o lead \o body \o trail :
      m \in UnitMetas, lead \in {<<>>, <<Blank, Blank>>},
      body \in {<<Para>>, <<Para, Blank, ScriptLine>>},
      trail \in {<<>>, <<Blank>>} }
  \cup { m \o <<Blank, DELIMITER, Blank, Para>> : m \in UnitMetas }
  \cup BadFiles

\* The metadata blocks parseContent hands to processMeta for those files.
UnitMetaBlocks == {Trim(Split(f)[1]) : f \in UnitFiles}

CallParseContent ==
  /\ \E file \in UnitFiles :
       unitCall' = [fn |-> "parseContent", file |-> file, result |-> parseContent(file)]
  /\ UNCHANGED <<pc, nEntries, rawContents, parsedContents, contents, contentsMap,
                 request, response, cacheVars, inflight>>

CallProcessMeta ==
  /\ \E rawMeta \in UnitMetaBlocks :
       unitCall' = [fn |-> "processMeta", rawMeta |-> rawMeta,
                    result |-> processMeta(rawMeta)]
  /\ UNCHANGED <<pc, nEntries, rawContents, parsedContents, contents, contentsMap,
                 request, response, cacheVars, inflight>>

\* The HTML strings handed to ReadPage: up to MaxHtmlLen of these elements.
HtmlPieces ==
  { El("p", "", <<>>, <<"p">>), El("script", "", <<>>, <<"script">>),
    El("b", "", <<>>, <<"a < b & c">>) }

HtmlInputs == UNION {[1..n -> HtmlPieces] : n \in 0..MaxHtmlLen}

UnitItems == {parseContent(f).item : f \in GoodFiles}

CallReadPage ==
  /\ \E content \in UnitItems, html \in HtmlInputs :
       unitCall' = [fn |-> "ReadPage", content |-> content, sanitizedContent |-> html,
                    result |-> ReadPage(content, html)]
  /\ UNCHANGED <<pc, nEntries, rawContents, parsedContents, contents, contentsMap,
                 request, response, cacheVars, inflight>>

UnitNext == CallParseContent \/ CallProcessMeta \/ CallReadPage

UnitSpec == Init /\ [][UnitNext]_vars

\* ------------------------------------------------------------------ serving
\* The server with requests in flight together.  The handlers of "/" and of
\* "/read/:slug" run to their response without an await; serveStatic awaits
\* the file, and other requests are taken and answered meanwhile.

\* The directory: two files of the documented format.
ServeFiles ==
  { ContentFile("t1", "a", IsoDates[1]), ContentFile("t2", "b", IsoDates[2]) }

ReadServeEntry == ReadEntryOf(ServeFiles)

\* The paths static requests ask for: the copies under the hash key the
\* layout links to, the style sheet under its own name, a file not there.
ServePaths ==
  { <<"/style", ".", "abc123", ".", "css">>,
    <<"/favicon", ".", "abc123", ".", "svg">>,
    <<"/style", ".", "css">>,
    <<"/missing", ".", "css">> }

\* serveStatic up to its await of the file.
StaticOpen ==
  /\ pc = "serving"
  /\ Len(inflight) < MaxInflight
  /\ \E path \in ServePaths : inflight' = Append(inflight, path)
  /\ UNCHANGED <<pc, nEntries, rawContents, parsedContents, contents, contentsMap,
                 request, response, cacheVars, unitCall>>

RemoveAt(seq, i) == SubSeq(seq, 1, i - 1) \o SubSeq(seq, i + 1, Len(seq))

\* serveStatic from its await on, for any of the requests that wait: onFound
\* and the response, or the not-found handler.
StaticFound_SharedContext ==
  /\ pc = "serving"
  /\ \E i \in DOMAIN inflight :
       /\ request' = [route |-> "/*", slug |-> "", path |-> inflight[i]]
       /\ response' = StaticResponse(inflight[Len(inflight)])
       /\ inflight' = RemoveAt(inflight, i)
  /\ UNCHANGED <<pc, nEntries, rawContents, parsedContents, contents, contentsMap,
                 cacheVars, unitCall>>

StaticFound ==
  /\ pc = "serving"
  /\ \E i \in DOMAIN inflight :
       /\ request' = [route |-> "/*", slug |-> "", path |-> inflight[i]]
       /\ response' = StaticResponse(inflight[i])
       /\ inflight' = RemoveAt(inflight, i)
  /\ UNCHANGED <<pc, nEntries, rawContents, parsedContents, contents, contentsMap,
                 cacheVars, unitCall>>

ServeNext ==
  \/ LoadHashkey \/ LoadBlankHashkey
  \/ ReadServeEntry \/ FinishLoad \/ StartServer
  \/ GetIndex \/ GetRead \/ StaticOpen \/ StaticFound

ServeSpec == Init /\ [][ServeNext]_vars

\* ------------------------------------------------------------------ claims
\* A text without the white space before its first and after its last line
\* that is not blank.
Strip(lines) ==
  LET solid == {i \in DOMAIN lines : lines[i] # Blank}
  IN  IF solid = {} THEN <<>>
      ELSE SubSeq(lines, CHOOSE i \in solid : \A j \in solid : i <= j,
                         CHOOSE i \in solid : \A j \in solid : i >= j)

Loaded == pc \in {"loaded", "serving"}

\* loadContents has returned and nothing else has run: the index as built.
JustLoaded == pc = "loaded"

AllWellFormed == \A i \in DOMAIN rawContents : WellFormed(rawContents[i])

\* The value a file's front matter gives for a key.
FileField(file, key) == file[CHOOSE i \in DOMAIN file : file[i].k = key].v

FileSlugs == {FileField(rawContents[i], "slug") : i \in DOMAIN rawContents}

\* The item parseContent makes of the i-th file enumerated.
ItemOf(i) == parseContent(rawContents[i]).item

\* C1, as stated: for well-formed files the index has the distinct slugs as
\* its keys and as many entries as there are input files.
C1_SizeIsNumberOfFiles ==
  (JustLoaded /\ AllWellFormed) =>
    /\ MapKeys(contents) = FileSlugs
    /\ Len(contents) = Len(rawContents)

\* C1, amended: for well-formed files the index has the distinct slugs as its
\* keys, one entry for each; it has as many entries as there are input files
\* exactly when no two files share a slug.
C1_SizeIsNumberOfSlugs ==
  (JustLoaded /\ AllWellFormed) =>
    /\ MapKeys(contents) = FileSlugs
    /\ Len(contents) = Cardinality(FileSlugs)
    /\ (Len(contents) = Len(rawContents)) <=>
         (\A i, j \in DOMAIN rawContents :
            FileField(rawContents[i], "slug") = FileField(rawContents[j], "slug")
              => i = j)

C1_Witness ==
  /\ JustLoaded /\ AllWellFormed
  /\ Len(rawContents) = 3
  /\ Cardinality(FileSlugs) = 2

\* C2: iterating the index visits the items in non-decreasing createdAt
\* order and iterating it reversed in non-increasing order, also when files
\* share a slug (stated here for files that are all in the format).
C2_IterationIsAscending ==
  (JustLoaded /\ AllWellFormed) =>
    /\ \A i, j \in DOMAIN contents :
         i < j => GetTime(contents[i].value["createdAt"])
                    <= GetTime(contents[j].value["createdAt"])
    /\ \A i, j \in DOMAIN contents :
         i < j => GetTime(Reverse(MapValues(contents))[i]["createdAt"])
                    >= GetTime(Reverse(MapValues(contents))[j]["createdAt"])

\* The files every one of which parses to an item with a valid createdAt.
AllDated ==
  /\ FirstThrow(rawContents) = 0
  /\ \A i \in DOMAIN rawContents : IsValidDate(Get(ItemOf(i), "createdAt"))

\* The file whose item comes last among those of its slug in the sorted
\* sequence: no other file of that slug has a greater createdAt, or the
\* same createdAt and a later place in the enumeration.
Winner(i) ==
  \A j \in DOMAIN rawContents :
    (j # i /\ Get(ItemOf(j), "slug") = Get(ItemOf(i), "slug")) =>
      \/ Compare(ItemOf(j), ItemOf(i)) < 0
      \/ Compare(ItemOf(j), ItemOf(i)) = 0 /\ j < i

\* C3: a slug that several files carry is mapped to the item that comes last
\* in the sorted sequence; the index has one entry for the slug, so the other
\* items are not reachable through it; and no error is raised: a load of
\* well-formed files that failed did not fail in parseContent.
C3_LastOfSlugWins ==
  /\ (JustLoaded /\ AllDated) =>
       \A i \in DOMAIN rawContents :
         Winner(i) =>
           /\ MapHas(contents, Get(ItemOf(i), "slug"))
           /\ MapGet(contents, Get(ItemOf(i), "slug")) = ItemOf(i)
           /\ Cardinality({k \in DOMAIN contents :
                             contents[k].key = Get(ItemOf(i), "slug")}) = 1
  /\ (pc = "failed" /\ AllWellFormed) => FirstThrow(rawContents) = 0

\* Two files of one slug and one createdAt that differ, and a third file.
C3_Witness ==
  /\ JustLoaded /\ AllDated
  /\ Len(rawContents) = 3
  /\ \E i, j \in DOMAIN rawContents :
       /\ i < j
       /\ Get(ItemOf(i), "slug") = Get(ItemOf(j), "slug")
       /\ Compare(ItemOf(i), ItemOf(j)) = 0
       /\ ItemOf(i) # ItemOf(j)
       /\ MapGet(contents, Get(ItemOf(j), "slug")) = ItemOf(j)

HasDelimiter(file) == \E i \in DOMAIN file : file[i] = DELIMITER

\* C4: a file without the delimiter makes the load fail, and no item without
\* a body is inserted into the index.
C4_NoDelimiterFails ==
  Loaded =>
    /\ \A i \in DOMAIN rawContents : HasDelimiter(rawContents[i])
    /\ \A k \in DOMAIN contents : Has(contents[k].value, "content")

\* The parts of a file that are not empty once trimmed.
NonEmptyParts(file) ==
  Cardinality({i \in DOMAIN Split(file) : Trim(Split(file)[i]) # <<>>})

\* C5: a file that does not split into exactly two non-empty parts makes
\* parseContent fail, so that no load that read such a file completes.
C5_TwoPartsOrFail ==
  Loaded =>
    \A i \in DOMAIN rawContents :
      /\ Len(Split(rawContents[i])) = 2
      /\ NonEmptyParts(rawContents[i]) = 2

\* The keys of the front matter of a file: those of the lines before the
\* delimiter.
FrontMatterKeys(file) ==
  {Split(file)[1][i].k : i \in {j \in DOMAIN Split(file)[1] : IsKeyLine(Split(file)[1][j])}}

LacksOneField(file) == Cardinality(Fields \ FrontMatterKeys(file)) = 1

\* C6: a file whose front matter lacks one of the metadata fields makes the
\* parse fail, so that no load that read such a file completes and no item
\* of such a file is in the index.
C6_EveryFieldOrFail ==
  Loaded => \A i \in DOMAIN rawContents : ~LacksOneField(rawContents[i])

\* C7: a load that fails leaves the index the empty map, as it is during the
\* load; an index that is exposed holds an entry for the slug of every file
\* read.
C7_NoPartialIndex ==
  /\ pc \in {"reading", "failed"} => (contents = <<>> /\ contentsMap = <<>>)
  /\ Loaded =>
       /\ Len(parsedContents) = Len(rawContents)
       /\ \A i \in DOMAIN parsedContents :
            MapHas(contents, Get(parsedContents[i], "slug"))

\* A load that fails on a file after it has parsed another.
C7_Witness ==
  /\ pc = "failed"
  /\ parsedContents # <<>>
  /\ FirstThrow(rawContents) > 1

\* C8: GET /read/:slug answers not-found exactly when the slug is no key of
\* the index, and otherwise with the reading page of the item stored under
\* the slug, its body the sanitized HTML of the item's Markdown.
C8_ReadRoute ==
  request.route = "/read/:slug" =>
    /\ (response.status = 404) <=> ~MapHas(contents, request.slug)
    /\ MapHas(contents, request.slug) =>
         /\ response.status = 200
         /\ Has(MapGet(contents, request.slug), "content")
         /\ response.body =
              ReadPage(MapGet(contents, request.slug),
                       Sanitize(Marked(MapGet(contents, request.slug)["content"])))

ReadServed == request.route = "/read/:slug" /\ response.status = 200

\* C9, as stated: the body of the response to GET /read/<validSlug> holds no
\* script element.
C9_NoScriptInBody ==
  ReadServed => \A i \in DOMAIN response.body : response.body[i].el # "script"

\* Where the article element of a reading page starts and ends.
ArticleStart(body) == CHOOSE i \in DOMAIN body : body[i].el = "article"
ArticleEnd(body) == CHOOSE i \in DOMAIN body : body[i].el = "/article"

\* C9, amended: the article element of the response to GET /read/<validSlug>
\* holds no script element, whatever the Markdown holds; the script elements
\* of the body are the four of the layout's head.
C9_NoScriptInArticle ==
  ReadServed =>
    /\ \A i \in DOMAIN response.body :
         (ArticleStart(response.body) < i /\ i < ArticleEnd(response.body))
           => response.body[i].el # "script"
    /\ Cardinality({i \in DOMAIN response.body : response.body[i].el = "script"}) = 4
    /\ \A i \in DOMAIN response.body :
         response.body[i].el = "script" => i < ArticleStart(response.body)

\* A reading page served for an item whose Markdown holds a script element.
C9_Witness ==
  /\ ReadServed
  /\ \E i \in DOMAIN MapGet(contents, request.slug)["content"] :
       MapGet(contents, request.slug)["content"][i] = ScriptLine

\* The title links of a listing, one for each entry.
TitleLinks(body) == SelectSeq(body, LAMBDA e : e.el = "a" /\ e.class = "title")

\* C10: GET / renders one entry for every item of the index, newest first
\* (stated here for files that are all in the format).
C10_ListingNewestFirst ==
  (request.route = "/" /\ AllWellFormed) =>
    /\ response.status = 200
    /\ LET links == TitleLinks(response.body)
       IN  /\ Len(links) = Len(contents)
           /\ {links[i].href[2] : i \in DOMAIN links} = MapKeys(contents)
           /\ \A i, j \in DOMAIN links :
                i < j => GetTime(MapGet(contents, links[i].href[2])["createdAt"])
                           >= GetTime(MapGet(contents, links[j].href[2])["createdAt"])

\* C11: once the server is serving, the index is the one loadContents built
\* and no request changes it: its keys, their order and the items stay as
\* they were when the load finished, whatever the requests are, those that
\* end in not-found included; the listing page's map is that same index.
C11_IndexFrozen ==
  /\ [](pc = "serving" => contentsMap = contents)
  /\ [][Loaded => contents' = contents]_vars
  /\ [][pc = "serving" => contentsMap' = contentsMap]_vars

\* A request for a slug no file has, answered not-found, with an index of two
\* entries.
C11_Witness ==
  /\ pc = "serving"
  /\ Len(contents) = 2
  /\ request.route = "/read/:slug" /\ request.slug = "zz"
  /\ response.status = 404

\* The hash key loadHashkey leaves for the key file it found.
KeyOfFile(file) == IF file.exists THEN Str(TrimText(file.text)) ELSE Undefined

\* C12: a request is handled only when the server is serving, and the server
\* is serving only once loadContents and loadHashkey have both completed:
\* the index, and the listing page's reference to it, is then the map built
\* from every file read, and the hash key is the one of the key file.
C12_ServeAfterInit ==
  /\ request.route # "none" => pc = "serving"
  /\ pc = "serving" =>
       /\ hkPc = "done"
       /\ hashKey = KeyOfFile(hashKeyFile)
       /\ Len(parsedContents) = Len(rawContents)
       /\ contents = BuildMap(parsedContents)
       /\ contentsMap = contents

\* A listing served from an index of two entries with a hash key loaded.
C12_Witness ==
  /\ request.route = "/" /\ response.status = 200
  /\ Len(contentsMap) = 2
  /\ hashKey = "abc123"

\* The paths of the layout and some others.
SomePaths ==
  { <<"/style", ".", "css">>, <<"/favicon", ".", "svg">>,
    <<"/LICENSE">>, <<>>,
    <<"/archive", ".", "tar", ".", "gz">>,
    <<"/v1", ".", "2/readme">>,
    <<".", "gitignore">>, <<"/file", ".">> }

HasDot(path) == \E i \in DOMAIN path : path[i] = "."

\* The links of a page that point at the style sheet.
StyleLinks(body) == SelectSeq(body, LAMBDA e : e.el = "link" /\ e.class = "stylesheet")

PageServed == request.route \in {"/", "/read/:slug"} /\ response.status = 200

\* C13: with no hash key loaded, asset returns every path as it is.
C13_AssetIdentityWithoutKey ==
  (assetCall.called /\ hashKey = Undefined) => assetCall.result = assetCall.path

\* asset("/style.css") called when no key file was found.
C13_Witness ==
  /\ assetCall.called /\ hashKey = Undefined
  /\ assetCall.path = <<"/style", ".", "css">>
  /\ assetCall.result = <<"/style", ".", "css">>

\* Where the last dot of a path is.
LastDot(path) ==
  CHOOSE i \in DOMAIN path :
    path[i] = "." /\ \A j \in (i + 1)..Len(path) : path[j] # "."

\* C14: with the hash key k loaded, asset of a path that holds a dot is the
\* path up to its last dot, then ".k", then "." and the final extension;
\* asset("/style.css") with the key abc123 is "/style.abc123.css".
C14_KeyBeforeExtension ==
  (assetCall.called /\ Truthy(hashKey) /\ HasDot(assetCall.path)) =>
    /\ assetCall.result =
         SubSeq(assetCall.path, 1, LastDot(assetCall.path) - 1)
           \o <<".", hashKey, ".">>
           \o SubSeq(assetCall.path, LastDot(assetCall.path) + 1, Len(assetCall.path))
    /\ (hashKey = "abc123" /\ assetCall.path = <<"/style", ".", "css">>) =>
         assetCall.result = <<"/style", ".", "abc123", ".", "css">>

\* asset called with the key abc123 on a path of two dots.
C14_Witness ==
  /\ assetCall.called /\ hashKey = "abc123"
  /\ assetCall.path = <<"/style", ".", "css", ".">>
  /\ assetCall.result = <<"/style", ".", "css", ".", "abc123", ".">>

\* C15: with a hash key loaded, asset of a path that holds no dot is the path
\* unchanged (asset rejects no input).
C15_NoDotUnchanged ==
  (assetCall.called /\ Truthy(hashKey) /\ ~HasDot(assetCall.path)) =>
    assetCall.result = assetCall.path

StaticServed == request.route = "/*" /\ response.status = 200

\* The path serveStatic resolves a request path to, under the root ./public.
ResolvedPath(path) == <<".", "/public">> \o path

\* C16: a static file is served with a Cache-Control header exactly when a
\* hash key is loaded and its text occurs in the resolved path, in a
\* directory name as well as in the file name; otherwise the response has no
\* header set by the handler.
C16_HeaderIffKeyInPath ==
  StaticServed =>
    /\ (\E h \in response.headers : h[1] = "Cache-Control")
         <=> /\ Truthy(hashKey)
             /\ \E i \in DOMAIN ResolvedPath(request.path) :
                  ResolvedPath(request.path)[i] = hashKey
    /\ (\A h \in response.headers : h[1] # "Cache-Control") => response.headers = {}

\* A file in a directory whose name holds the key, served with the header.
C16_Witness ==
  /\ StaticServed
  /\ request.path = <<"/", "abc123", "/logo", ".", "svg">>
  /\ response.headers # {}

\* C17: the Cache-Control header attached to a static file response has the
\* value "max-age=31536000, immutable".
C17_HeaderValue ==
  StaticServed =>
    \A h \in response.headers :
      h[1] = "Cache-Control" => h[2] = "max-age=31536000, immutable"

\* The icon and style sheet paths of a page, as rendered.
AssetLinks(body) ==
  SelectSeq(body, LAMBDA e : e.el = "link" /\ e.class = "icon")
    \o <<StyleLinks(body)[1]>>

\* C18: the hash key changes only when loadHashkey completes, which happens
\* once; from then on getHashKey returns the same value, whatever the
\* requests are, and asset the same string for the same path: every page
\* served carries the asset paths of the key loaded at start-up.
C18_HashKeySetOnce ==
  /\ [][hashKey' # hashKey => (hkPc = "pending" /\ hkPc' = "done")]_vars
  /\ [][hkPc = "done" =>
          /\ hkPc' = "done"
          /\ hashKeyFile' = hashKeyFile
          /\ getHashKey' = getHashKey]_vars
  /\ [](PageServed =>
          LET links == AssetLinks(response.body)
          IN  IF hashKeyFile.exists
                THEN /\ links[1].href = <<"/favicon", ".", "abc123", ".", "svg">>
                     /\ links[2].href = <<"/style", ".", "abc123", ".", "css">>
                ELSE /\ links[1].href = <<"/favicon", ".", "svg">>
                     /\ links[2].href = <<"/style", ".", "css">>)

\* A static file served under its hashed name, after the key was loaded.
C18_Witness ==
  /\ hkPc = "done" /\ hashKey = "abc123"
  /\ StaticServed
  /\ request.path = <<"/style", ".", "abc123", ".", "css">>

\* C19: when the key file does not exist, loadHashkey does not fail and
\* leaves the hash key undefined; asset is then the identity and no static
\* file response has a header set by the handler.
C19_NoKeyFile ==
  /\ hkPc = "failed" => hashKeyFile.exists
  /\ (hkPc = "done" /\ ~hashKeyFile.exists) =>
       /\ hashKey = Undefined
       /\ \A path \in SomePaths : asset(path) = path
       /\ StaticServed => response.headers = {}

\* The hashed copy of the style sheet served when no key file exists.
C19_Witness ==
  /\ hkPc = "done" /\ ~hashKeyFile.exists
  /\ StaticServed
  /\ request.path = <<"/style", ".", "abc123", ".", "css">>
  /\ response.headers = {}

\* The part of a listing page between the start of the content element and
\* the divider before the footer: the introduction and the entries.
ListingPart(body) ==
  LET first == CHOOSE i \in DOMAIN body :
                 body[i].class = "content p-2 container max-w-screen-md mx-auto"
      last  == CHOOSE i \in DOMAIN body : body[i].class = "divider mt-6 md:mt-20"
  IN  SubSeq(body, first + 1, last - 1)

IsDivider(e) == e.el = "div" /\ e.class = "divider my-0"

IsEntryStart(e) == e.el = "div" /\ e.class = "py-4 bg-base text-base-content"

\* C20: the listing of N items holds N entries and, for N >= 1, N - 1
\* dividers, each one between the end of an entry and the start of the next,
\* and none after the last entry; for N = 0 it holds no divider.
C20_DividersBetweenEntries ==
  (request.route = "/" /\ response.status = 200) =>
    LET part     == ListingPart(response.body)
        N        == Len(contentsMap)
        dividers == {i \in DOMAIN part : IsDivider(part[i])}
    IN  /\ Cardinality({i \in DOMAIN part : IsEntryStart(part[i])}) = N
        /\ Cardinality(dividers) = IF N >= 1 THEN N - 1 ELSE 0
        /\ \A i \in dividers :
             /\ 1 < i /\ i < Len(part)
             /\ part[i - 1].class = "more"
             /\ IsEntryStart(part[i + 1])
        /\ ~IsDivider(part[Len(part)])

\* A listing of three items.
C20_Witness ==
  /\ request.route = "/" /\ response.status = 200
  /\ Len(contentsMap) = 3

\* The content of the meta description of a page.
MetaDescription(body) ==
  body[CHOOSE i \in DOMAIN body : body[i].el = "meta" /\ body[i].class = "description"].text

\* C21: the meta description of a page is the description the page passes
\* to the layout, and the default site description when it passes none: the
\* listing passes its introduction, the reading page the short summary of
\* its item, which is none for an item without one.
C21_MetaDescription ==
  /\ (request.route = "/" /\ response.status = 200) =>
       MetaDescription(response.body) = <<IndexDescription>>
  /\ ReadServed =>
       MetaDescription(response.body) =
         IF Has(MapGet(contents, request.slug), "short")
           THEN <<MapGet(contents, request.slug)["short"]>>
           ELSE <<"billy's directory">>

\* The reading page of an item that has no short summary.
C21_Witness ==
  /\ ReadServed
  /\ ~Has(MapGet(contents, request.slug), "short")
  /\ MetaDescription(response.body) = <<"billy's directory">>

\* The items of a sequence that were created at the instant d, in order.
CreatedAt(items, d) == SelectSeq(items, LAMBDA item : item["createdAt"] = d)

\* The items of the files, in the order of enumeration.
RawItems == [i \in DOMAIN rawContents |-> ItemOf(i)]

\* The sort is stable: the items of one createdAt are in the sorted sequence
\* in the order in which their files were enumerated.
SortKeepsTies ==
  \A d \in Dates : CreatedAt(parsedContents, d) = CreatedAt(RawItems, d)

\* Two items of one createdAt are in the index in an order in which their
\* files were enumerated.
IndexKeepsTies ==
  \A k, l \in DOMAIN contents :
    (k < l /\ contents[k].value["createdAt"] = contents[l].value["createdAt"]) =>
      \E i, j \in DOMAIN rawContents :
        i < j /\ ItemOf(i) = contents[k].value /\ ItemOf(j) = contents[l].value

SortedSequenceKeepsTies == (JustLoaded /\ AllWellFormed) => SortKeepsTies

\* And so does the index when no two files share a slug.
DistinctSlugsKeepTies ==
  (JustLoaded /\ AllWellFormed /\ Cardinality(FileSlugs) = Len(rawContents))
    => IndexKeepsTies

\* Section 6's format, a "content" key in the front matter allowed: one
\* delimiter, before it a fenced block of keys holding every metadata key,
\* each key once, after it a body.
FencedTwoPart(file) ==
  LET parts == Split(file)
      meta  == Strip(parts[1])
      inner == SubSeq(meta, 2, Len(meta) - 1)
  IN  /\ Len(parts) = 2
      /\ Len(meta) >= 2 /\ meta[1] = Fence /\ meta[Len(meta)] = Fence
      /\ \A i \in DOMAIN inner : IsKeyLine(inner[i])
      /\ \A i, j \in DOMAIN inner : inner[i].k = inner[j].k => i = j
      /\ Fields \subseteq {inner[i].k : i \in DOMAIN inner}
      /\ Strip(parts[2]) # <<>>

\* The value the front matter of a file gives a key.
FrontMatter(file, key) ==
  LET d == CHOOSE i \in DOMAIN file : file[i] = DELIMITER
  IN  file[CHOOSE i \in 1..(d - 1) : file[i].k = key].v

\* The text after the delimiter.
AfterDelimiter(file) ==
  LET d == CHOOSE i \in DOMAIN file : file[i] = DELIMITER
  IN  SubSeq(file, d + 1, Len(file))

ParseCalled == unitCall.fn = "parseContent"

\* C23: for every well-formed file, the item's content field is the text
\* after the delimiter with leading and trailing white space removed, every
\* other field of the item is the value of the front-matter key of that name,
\* and a content key of the front matter is not in the item: the body has
\* taken its place.
C23_FieldsFromFrontMatter ==
  (ParseCalled /\ FencedTwoPart(unitCall.file)) =>
    LET item == unitCall.result.item
    IN  /\ unitCall.result.ok
        /\ DOMAIN item = Fields \cup {"content"}
        /\ item["content"] = Strip(AfterDelimiter(unitCall.file))
        /\ \A f \in Fields : item[f] = FrontMatter(unitCall.file, f)
        /\ item["content"] # FrontMatterContent

\* parseContent has parsed a well-formed file whose front matter holds a
\* content key and whose body has white space on both sides.
C23_Witness ==
  /\ ParseCalled /\ FencedTwoPart(unitCall.file)
  /\ \E i \in DOMAIN unitCall.file : unitCall.file[i] = ContentKeyLine
  /\ unitCall.file[Len(unitCall.file)] = Blank
  /\ Len(AfterDelimiter(unitCall.file)) > Len(unitCall.result.item["content"]) + 1
  /\ unitCall.result.item["content"] = <<Para, Blank, ScriptLine>>

ReadPageCalled == unitCall.fn = "ReadPage"

\* What a page holds inside its article element.
ArticleContent(body) ==
  LET open  == CHOOSE i \in DOMAIN body : body[i].el = "article"
      close == CHOOSE i \in DOMAIN body : body[i].el = "/article"
  IN  SubSeq(body, open + 1, close - 1)

\* C25: the reading page holds, inside its article element, the
\* sanitizedContent string it was given, verbatim: nothing escaped, nothing
\* added, nothing removed, whatever the string is.
C25_ArticleVerbatim ==
  ReadPageCalled =>
    /\ unitCall.result # Thrown
    /\ Cardinality({i \in DOMAIN unitCall.result :
                      unitCall.result[i].el \in {"article", "/article"}}) = 2
    /\ ArticleContent(unitCall.result) = unitCall.sanitizedContent

\* ReadPage has rendered a string that holds a script element and a text
\* with the characters an escaping would replace.
C25_Witness ==
  /\ ReadPageCalled
  /\ Len(unitCall.sanitizedContent) = MaxHtmlLen
  /\ \E i \in DOMAIN unitCall.sanitizedContent :
       unitCall.sanitizedContent[i].el = "script"
  /\ \E i \in DOMAIN unitCall.sanitizedContent :
       unitCall.sanitizedContent[i].text = <<"a < b & c">>
  /\ \E i \in DOMAIN unitCall.result : unitCall.result[i].el = "script"

\* A file whose metadata block has no fence markers: key lines only, each
\* key once.
Unfenced(file) ==
  LET parts == Split(file)
      meta  == Strip(parts[1])
  IN  /\ Len(parts) = 2
      /\ Len(meta) >= 2
      /\ \A i \in DOMAIN meta : IsKeyLine(meta[i])
      /\ \A i, j \in DOMAIN meta : meta[i].k = meta[j].k => i = j

\* The lines of the metadata block of a file between its first and its last.
InnerLines(file) ==
  LET meta == Strip(Split(file)[1])
  IN  [i \in 1..(Len(meta) - 2) |-> meta[i + 1]]

ProcessMetaCalled == unitCall.fn = "processMeta"

\* C29: processMeta drops the first and the last line of the trimmed metadata
\* block, fence markers or not, and the lines in between are what is parsed:
\* the item of a correctly fenced file holds every front-matter key, the item
\* of an unfenced file holds the keys of the lines in between and has lost
\* those of the first and the last line, and no error is raised.
C29_FirstAndLastLineDropped ==
  /\ ProcessMetaCalled =>
       /\ Len(unitCall.result) =
            (IF Len(unitCall.rawMeta) >= 2 THEN Len(unitCall.rawMeta) - 2 ELSE 0)
       /\ \A i \in DOMAIN unitCall.result :
            unitCall.result[i] = unitCall.rawMeta[i + 1]
  /\ (ParseCalled /\ (FencedTwoPart(unitCall.file) \/ Unfenced(unitCall.file))) =>
       LET inner == InnerLines(unitCall.file)
           item  == unitCall.result.item
       IN  /\ unitCall.result.ok
           /\ DOMAIN item = {inner[i].k : i \in DOMAIN inner} \cup {"content"}
           /\ \A i \in DOMAIN inner :
                inner[i].k # "content" => item[inner[i].k] = inner[i].v
  /\ (ParseCalled /\ FencedTwoPart(unitCall.file)) =>
       \A i \in DOMAIN unitCall.file :
         (IsKeyLine(unitCall.file[i]) /\ i < Len(unitCall.file) - Len(AfterDelimiter(unitCall.file)))
           => Has(unitCall.result.item, unitCall.file[i].k)
  /\ (ParseCalled /\ Unfenced(unitCall.file)) =>
       LET meta == Strip(Split(unitCall.file)[1])
       IN  \A f \in {meta[1].k, meta[Len(meta)].k} \ {"content"} :
             ~Has(unitCall.result.item, f)

\* parseContent has parsed a file whose front matter has no fence markers:
\* no error, and the item has neither the title of the first line nor the
\* tags of the last.
C29_Witness ==
  /\ ParseCalled /\ Unfenced(unitCall.file)
  /\ unitCall.file[1].k = "title"
  /\ unitCall.result.ok
  /\ ~Has(unitCall.result.item, "title")
  /\ ~Has(unitCall.result.item, "tags")
  /\ Has(unitCall.result.item, "slug")

\* The response a request gets when it is the only one the server is given.
ResponseAlone(req) ==
  CASE req.route = "/" -> IndexResponse
    [] req.route = "/read/:slug" -> ReadResponse(req.slug)
    [] req.route = "/*" -> StaticResponse(req.path)

\* C24: the handlers only read the index and the hash key, so whatever
\* requests were answered before and whatever requests wait for their file,
\* the response to a request is the one the same request gets alone: it
\* depends on the request path, the index as loaded and the hash key as
\* loaded only.
C24_ResponseAsAlone ==
  pc = "serving" =>
    /\ contents = BuildMap(parsedContents)
    /\ contentsMap = contents
    /\ hashKey = KeyOfFile(hashKeyFile)
    /\ request.route # "none" => response = ResponseAlone(request)

\* A static file answered while a request for another path, made before it,
\* still waits.
C24_Witness ==
  /\ StaticServed
  /\ request.path = <<"/style", ".", "abc123", ".", "css">>
  /\ response.headers # {}
  /\ Len(inflight) = 1
  /\ inflight[1] = <<"/missing", ".", "css">>
  /\ Len(contents) = 2

\* The name of the copy of a file under the key: the path up to its last
\* dot, the key, the final extension, with dots between.
HashedCopy(path, key) ==
  SubSeq(path, 1, LastDot(path) - 1) \o <<".", key, ".">>
    \o SubSeq(path, LastDot(path) + 1, Len(path))

\* C26: with a hash key loaded, asset of a path that holds a dot is the name
\* of the file's copy under the key, and the key occurs in it: so the links
\* of every page to the icon and to the style sheet, and a static file that
\* is served at such a path gets the Cache-Control header.
C26_AssetPathsGetHeader ==
  (hkPc = "done" /\ Truthy(hashKey)) =>
    /\ \A p \in SomePaths : HasDot(p) =>
         /\ asset(p) = HashedCopy(p, hashKey)
         /\ \E i \in DOMAIN asset(p) : asset(p)[i] = hashKey
    /\ PageServed =>
         /\ AssetLinks(response.body)[1].href = HashedCopy(<<"/favicon", ".", "svg">>, hashKey)
         /\ AssetLinks(response.body)[2].href = HashedCopy(<<"/style", ".", "css">>, hashKey)
    /\ (StaticServed /\ \E p \in SomePaths : HasDot(p) /\ request.path = HashedCopy(p, hashKey)) =>
         \E h \in response.headers : h[1] = "Cache-Control"

\* The copy of the icon under the key, at the path asset gives the layout,
\* served with the header.
C26_Witness ==
  /\ hkPc = "done" /\ Truthy(hashKey)
  /\ StaticServed
  /\ request.path = asset(<<"/favicon", ".", "svg">>)
  /\ <<"Cache-Control", ImmutableCacheControl>> \in response.headers

\* The key file exists and holds nothing but white space, or nothing.
BlankKeyFile ==
  /\ hashKeyFile.exists
  /\ \A i \in DOMAIN hashKeyFile.text : hashKeyFile.text[i] \in {" ", "\t", "\n"}

\* C28: a key file that is empty or holds only white space gives the empty
\* string as the key, and the server then does what it does with no key:
\* asset returns every path unchanged, the pages link to the unhashed paths,
\* and no static file response has a header set by the handler.
C28_BlankKeyIsNoKey ==
  (hkPc = "done" /\ BlankKeyFile) =>
    /\ hashKey = ""
    /\ getHashKey = ""
    /\ \A p \in SomePaths : asset(p) = p
    /\ PageServed =>
         /\ AssetLinks(response.body)[1].href = <<"/favicon", ".", "svg">>
         /\ AssetLinks(response.body)[2].href = <<"/style", ".", "css">>
    /\ StaticServed => response.headers = {}

\* After a key file of white space was loaded, a static file served, a
\* request for another one waiting.
C28_Witness ==
  /\ hkPc = "done" /\ BlankKeyFile
  /\ hashKeyFile.text # <<>>
  /\ hashKey = ""
  /\ StaticServed
  /\ request.path = <<"/style", ".", "css">>
  /\ response.headers = {}
  /\ inflight # <<>>

ListingServed == request.route = "/" /\ response.status = 200

\* Each entry of the listing served links to /read/<slug>, the slug is a key
\* of the index, and the read route answers that slug with the reading page
\* of the item of the entry.
LinksResolve ==
  LET list  == ListingOrder(contentsMap)
      links == TitleLinks(response.body)
  IN  /\ Len(links) = Len(list)
      /\ \A i \in DOMAIN links :
           /\ links[i].href[1] = "/read/"
           /\ MapHas(contents, links[i].href[2])
           /\ ReadResponse(links[i].href[2]).status = 200
           /\ Has(list[i], "content")
           /\ ReadResponse(links[i].href[2]) =
                Html(ReadPage(list[i], Sanitize(Marked(list[i]["content"]))))

\* C27: every entry of the listing links to /read/<slug> with a slug that is
\* a key of the index the read route consults, and following the link gives
\* the reading page of that item, never a not-found response.
C27_ListingLinksResolve == ListingServed => LinksResolve

\* With files of the documented format only, every link of the listing
\* leads to the reading page of its item.
WellFormedLinksResolve == (ListingServed /\ AllWellFormed) => LinksResolve

====
